---- MODULE Spec2Model ----
(***************************************************************************)
(* A model of two fragments of the NeMo toolkit:                            *)
(*   - nemo/collections/nlp/models/language_modeling/megatron_fused_retro.py*)
(*     (MegatronFusedRetrievalAdapterModel and get_pseudo_tokens),          *)
(*   - nemo/core/utils/k2_guard.py (the guarded import of k2).              *)
(* Every operation is modelled at the level of the function that holds it;  *)
(* strings are TLA+ strings, Python lists are sequences, dicts are          *)
(* functions whose DOMAIN is the set of keys.                               *)
(***************************************************************************)
EXTENDS Integers, Sequences, FiniteSets, TLC

VARIABLES
    pc,     \* position of the operation under way
    args,   \* the arguments the operation was called with
    ret,    \* what the operation returned or raised
    self,   \* the fields of the MegatronFusedRetrievalAdapterModel object
    k2env,  \* the environment of k2_guard: is k2 installed, and which version
    k2mod   \* the namespace and the import events of the k2_guard module

vars == <<pc, args, ret, self, k2env, k2mod>>

\* Python's None, and the marker of an attribute that was never assigned.
None == "None"
Unset == "<unset>"

---------------------------------------------------------------------------
(* Bounds of the model. *)

MaxNumVirtualTokens == 120  \* largest argument of get_pseudo_tokens
MaxTasks == 3               \* longest cfg.task_templates list
MaxNewTasks == 2            \* longest cfg.new_tasks list
MaxTotalVirtualTokens == 2  \* largest total_virtual_tokens of a template

MaxMajor == 2                \* largest major number of an installed k2
MaxMinor == 12               \* largest minor number of an installed k2
MaxPatch == 1                \* largest third release number, when present
MaxDev == 1                  \* largest .devN number, when present

MaxGlobalBatchSize == 4      \* largest cfg.global_batch_size
MaxDataParallelSize == 3     \* largest data-parallel world size
MaxTensorParallelSize == 2   \* largest tensor-model-parallel world size
MaxBatch == 2                \* most rows of a batch given to collate_fn
MaxLen == 2                  \* longest input_ids of a row
MaxTpWorkers == 3            \* largest tp_workers given to collate_fn
MaxBatchMax == 12            \* longest batch the padding is computed for
MaxPaddingTp == 7            \* largest tp_workers the padding is computed for

TaskNames == {"squad", "boolq", "intent"}

---------------------------------------------------------------------------
(* Helpers over sequences. *)

Range(s) == {s[i] : i \in DOMAIN s}

SeqsUpTo(S, n) == UNION {[1..k -> S] : k \in 0..n}

Max(a, b) == IF a >= b THEN a ELSE b

---------------------------------------------------------------------------
(* get_pseudo_tokens *)

\* VirtualPromptPlaceholderToken.BASE / .END, as the docstring spells them.
BASE == "<prompt_"
END == ">"

Digit(d) == <<"0", "1", "2", "3", "4", "5", "6", "7", "8", "9">>[d + 1]

\* Python's str() of a non-negative int: its decimal digits, no leading zero.
RECURSIVE str(_)
str(i) == IF i < 10 THEN Digit(i) ELSE str(i \div 10) \o Digit(i % 10)

\* range(n) as the sequence 0, 1, ..., n-1 (empty for n <= 0).
range(n) == [k \in 1..n |-> k - 1]

\* A plausible slip: numbering the placeholders from 1.
get_pseudo_tokens_from_one(num_virtual_tokens) ==
    [k \in 1..num_virtual_tokens |-> BASE \o str(k) \o END]

get_pseudo_tokens(num_virtual_tokens) ==
    LET r == range(num_virtual_tokens)
    IN  [k \in DOMAIN r |-> BASE \o str(r[k]) \o END]

---------------------------------------------------------------------------
(* load_task_templates *)

\* One entry of cfg.task_templates, reduced to the fields the table's
\* bookkeeping reads; the other fields are copied from the config unchanged.
TaskConfigs ==
    [taskname : TaskNames, total_virtual_tokens : 1..MaxTotalVirtualTokens]

\* dict[key] = value
DictSet(d, key, value) ==
    [k \in (DOMAIN d) \cup {key} |-> IF k = key THEN value ELSE d[k]]

EmptyDict == [k \in {} |-> None]

\* task_id_num += 1
NextTaskIdNum(task_id_num) == task_id_num + 1

\* The for loop over task_templates, from its i-th element on; st is
\* the state of the three tables and the counter.
RECURSIVE LoadLoop(_, _, _)
LoadLoop(task_templates, i, st) ==
    IF i > Len(task_templates) THEN st
    ELSE LET task == task_templates[i]
             entry == [total_virtual_tokens |-> task.total_virtual_tokens,
                       task_id_num |-> st.task_id_num]
         IN  LoadLoop(task_templates, i + 1,
                 [task_templates |->
                      DictSet(st.task_templates, task.taskname, entry),
                  max_virtual_tokens |->
                      Max(st.max_virtual_tokens, task.total_virtual_tokens),
                  task_id_num_to_name |->
                      DictSet(st.task_id_num_to_name, st.task_id_num, task.taskname),
                  task_id_num |-> NextTaskIdNum(st.task_id_num)])

\* The generator inside all(...): the first new task whose template is
\* missing raises KeyError, the first whose count differs fails the assert.
RECURSIVE CheckNewTasks(_, _, _, _)
CheckNewTasks(table, new_tasks, i, total) ==
    IF i > Len(new_tasks) THEN "ok"
    ELSE IF new_tasks[i] \notin DOMAIN table THEN "KeyError"
    ELSE IF table[new_tasks[i]].total_virtual_tokens # total THEN "AssertionError"
    ELSE CheckNewTasks(table, new_tasks, i + 1, total)

\* A plausible slip: the check compares against every template, not only
\* the new tasks'.
NewTasksCheckAllTemplates(table, new_tasks) ==
    IF new_tasks = <<>> THEN [outcome |-> "ok", assigned |-> FALSE, total |-> 0]
    ELSE IF new_tasks[1] \notin DOMAIN table
         THEN [outcome |-> "KeyError", assigned |-> FALSE, total |-> 0]
    ELSE LET total == table[new_tasks[1]].total_virtual_tokens
         IN  [outcome |->
                  IF \E n \in DOMAIN table : table[n].total_virtual_tokens # total
                  THEN "AssertionError"
                  ELSE CheckNewTasks(table, new_tasks, 1, total),
              assigned |-> TRUE,
              total |-> total]

\* if self.new_tasks: ... assert all(...)
NewTasksCheck(table, new_tasks) ==
    IF new_tasks = <<>> THEN [outcome |-> "ok", assigned |-> FALSE, total |-> 0]
    ELSE IF new_tasks[1] \notin DOMAIN table
         THEN [outcome |-> "KeyError", assigned |-> FALSE, total |-> 0]
    ELSE LET total == table[new_tasks[1]].total_virtual_tokens
         IN  [outcome |-> CheckNewTasks(table, new_tasks, 1, total),
              assigned |-> TRUE,
              total |-> total]

\* The whole method: the fields it leaves on the object and how it ends.
load_task_templates(obj, task_templates) ==
    LET st == LoadLoop(task_templates, 1,
                  [task_templates |-> EmptyDict,
                   task_id_num_to_name |-> EmptyDict,
                   max_virtual_tokens |-> 0,
                   task_id_num |-> 0])
        chk == NewTasksCheck(st.task_templates, obj.new_tasks)
    IN  [obj |-> [obj EXCEPT
                     !.task_templates = st.task_templates,
                     !.task_id_num_to_name = st.task_id_num_to_name,
                     !.max_virtual_tokens = st.max_virtual_tokens,
                     !.total_new_task_virtual_tokens =
                         IF chk.assigned THEN chk.total ELSE @],
         outcome |-> chk.outcome]

---------------------------------------------------------------------------
(* The object before __init__ has assigned anything. *)

NoObject ==
    [cfg |-> Unset,
     new_tasks |-> Unset,
     virtual_prompt_style |-> Unset,
     frozen_model |-> Unset,
     task_templates |-> Unset,
     task_id_num_to_name |-> Unset,
     max_virtual_tokens |-> Unset,
     total_new_task_virtual_tokens |-> Unset,
     pseudo_tokens |-> Unset,
     pseudo_token_ids |-> Unset,
     pad_token_id |-> Unset,
     virtual_prompt_source |-> Unset,
     train_dl |-> Unset,
     validation_dl |-> Unset,
     retro_train_ds |-> Unset]

NoK2Env == [installed |-> FALSE, release |-> <<>>, dev |-> <<>>, dev_version |-> None]
NoK2Mod == [k2 |-> Unset, k2_version |-> Unset, events |-> <<>>]

Idle ==
    /\ pc = "idle"
    /\ args = [op |-> "none"]
    /\ ret = None
    /\ self = NoObject
    /\ k2env = NoK2Env
    /\ k2mod = NoK2Mod

---------------------------------------------------------------------------
(* MegatronFusedRetrievalAdapterModel.__init__ *)

\* The members of VirtualPromptStyle that __init__ names, by their values.
VirtualPromptStyleMembers ==
    [PROMPT_TUNING |-> "prompt-tuning",
     P_TUNING |-> "p-tuning",
     INFERENCE |-> "inference",
     NO_PROMPT |-> "no-prompts"]

\* The values a configuration may give for virtual_prompt_style: those of
\* the members, and two that belong to no member.
VirtualPromptStyleValues ==
    {VirtualPromptStyleMembers[name] : name \in DOMAIN VirtualPromptStyleMembers}
    \cup {"soft-prompt", "prompt_tuning"}

IsStyleValue(value) ==
    \E name \in DOMAIN VirtualPromptStyleMembers :
        VirtualPromptStyleMembers[name] = value

\* VirtualPromptStyle(value): Enum's lookup of a member by value, which
\* raises ValueError("'value' is not a valid VirtualPromptStyle") when no
\* member has the value.
VirtualPromptStyle(value) ==
    IF IsStyleValue(value)
    THEN [outcome |-> "ok",
          member |-> CHOOSE name \in DOMAIN VirtualPromptStyleMembers :
                         VirtualPromptStyleMembers[name] = value,
          message |-> ""]
    ELSE [outcome |-> "ValueError",
          member |-> Unset,
          message |-> "'" \o value \o "' is not a valid VirtualPromptStyle"]

\* The message of the raise that ends __init__'s if/elif chain.
StyleNotRecognizedMessage(value) ==
    "\nvirtual prompt style '" \o value
    \o "' not recognized, please use one of 'prompt-tuning' or 'p-tuning'"

\* The if/elif chain over self.virtual_prompt_style.
VirtualPromptSourceOf(style) ==
    IF style \in {"PROMPT_TUNING", "INFERENCE"} THEN "PROMPT_TABLE"
    ELSE IF style = "P_TUNING" THEN "PROMPT_ENCODER"
    ELSE IF style = "NO_PROMPT" THEN "NO_PROMPT"
    ELSE Unset

\* The (task_templates, new_tasks) pairs the configurations of this
\* specification carry: none, one new task, two new tasks that disagree
\* (the assertion fails), a new task with no template (KeyError).
ModelTaskConfigs ==
    {[task_templates |-> <<>>, new_tasks |-> <<>>],
     [task_templates |-> <<[taskname |-> "squad", total_virtual_tokens |-> 2]>>,
      new_tasks |-> <<"squad">>],
     [task_templates |-> <<[taskname |-> "squad", total_virtual_tokens |-> 1],
                           [taskname |-> "boolq", total_virtual_tokens |-> 2]>>,
      new_tasks |-> <<"squad", "boolq">>],
     [task_templates |-> <<[taskname |-> "squad", total_virtual_tokens |-> 1]>>,
      new_tasks |-> <<"intent">>]}

\* The configurations: the keys of cfg that __init__ and setup read.
Configs ==
    [virtual_prompt_style : VirtualPromptStyleValues,
     language_model_path : {None, "gpt.nemo"},
     train_ds : BOOLEAN,
     validation_ds : BOOLEAN,
     global_batch_size : 1..MaxGlobalBatchSize,
     sequence_parallel : BOOLEAN,
     tasks : ModelTaskConfigs]

\* The tokenizer, as far as __init__ reads it: its pad_id, the size of its
\* vocabulary, and tokens_to_ids of the special tokens add_special_tokens
\* has appended to the vocabulary, in their order.
TokenizerPadId == 0
TokenizerVocabSize == 1

TokensToIds(tokens) == [k \in DOMAIN tokens |-> TokenizerVocabSize + k - 1]

Raised(obj, exc, message, line) ==
    [obj |-> obj, outcome |-> "raised", exc |-> exc, message |-> message,
     line |-> line]

\* __init__, statement by statement. restore_ok says whether
\* MegatronGPTModel.restore_from(None, return_config=True) returns when the
\* configuration gives no language_model_path (the call of line 55 is made
\* either way); with a path it returns.
Init__(cfg, restore_ok) ==
    LET o1 == [NoObject EXCEPT !.cfg = cfg, !.new_tasks = cfg.tasks.new_tasks]
        style == VirtualPromptStyle(cfg.virtual_prompt_style)
        o2 == [o1 EXCEPT !.virtual_prompt_style = style.member]
        o3 == IF cfg.language_model_path # None
              THEN [o2 EXCEPT !.frozen_model = "restored"]
              ELSE o2
        loaded == load_task_templates(o3, cfg.tasks.task_templates)
        pseudo_tokens == get_pseudo_tokens(loaded.obj.max_virtual_tokens)
        o4 == [loaded.obj EXCEPT
                  !.pseudo_tokens = pseudo_tokens,
                  !.pseudo_token_ids = TokensToIds(pseudo_tokens),
                  !.pad_token_id = TokenizerPadId]
        source == VirtualPromptSourceOf(o4.virtual_prompt_style)
    IN  IF style.outcome # "ok"
        THEN Raised(o1, style.outcome, style.message, 53)
        ELSE IF cfg.language_model_path = None /\ ~restore_ok
        THEN Raised(o2, "TypeError", "restore_from(None)", 55)
        ELSE IF loaded.outcome # "ok"
        THEN Raised(loaded.obj, loaded.outcome, "", 72)
        ELSE IF source = Unset
        THEN Raised(o4, "ValueError",
                    StyleNotRecognizedMessage(cfg.virtual_prompt_style), 89)
        ELSE [obj |-> [o4 EXCEPT !.virtual_prompt_source = source],
              outcome |-> "returned", exc |-> "", message |-> "", line |-> 91]

---------------------------------------------------------------------------
(* build_virtual_prompt_dataset and setup *)

\* The parallel state: data-parallel and tensor-model-parallel world sizes.
ParallelStates ==
    [data_parallel_size : 1..MaxDataParallelSize,
     tensor_model_parallel_size : 1..MaxTensorParallelSize]

\* A plausible slip: the training collate function is given the
\* tensor-parallel world size whether or not sequence_parallel is set.
build_virtual_prompt_dataset_tp_always(obj, parallel_state, batch_size, for_train, get_dataset_only) ==
    LET dataset == [class |-> "GPTPromptLearningDataset", for_train |-> for_train]
        no_loader == [batch_size |-> 0, collate_fn |-> "", tp_workers |-> 0]
        tp == parallel_state.tensor_model_parallel_size
        dp == parallel_state.data_parallel_size
        sampled == <<"GPTPromptLearningDataset", "get_data_parallel_rank",
                     "get_data_parallel_world_size", "DistributedSampler">>
    IN  IF get_dataset_only
        THEN [outcome |-> "returned", calls |-> <<"GPTPromptLearningDataset">>,
              dataset |-> dataset, has_loader |-> FALSE, dataloader |-> no_loader]
        ELSE IF batch_size % dp # 0
        THEN [outcome |-> "AssertionError", calls |-> sampled,
              dataset |-> dataset, has_loader |-> FALSE, dataloader |-> no_loader]
        ELSE [outcome |-> "returned",
              calls |-> sampled
                        \o (IF for_train
                            THEN <<"get_tensor_model_parallel_world_size">>
                            ELSE <<>>)
                        \o <<"DataLoader">>,
              dataset |-> dataset,
              has_loader |-> TRUE,
              dataloader |->
                  [batch_size |-> batch_size \div dp,
                   collate_fn |-> IF for_train THEN "self.collate_fn"
                                  ELSE "dataset.inference_collate_fn",
                   tp_workers |-> IF for_train THEN tp ELSE 0]]

\* build_virtual_prompt_dataset: how it ends, the calls it made in order,
\* and the loader it built (batch size per rank, collate function).
build_virtual_prompt_dataset(obj, parallel_state, batch_size, for_train, get_dataset_only) ==
    LET dataset == [class |-> "GPTPromptLearningDataset", for_train |-> for_train]
        no_loader == [batch_size |-> 0, collate_fn |-> "", tp_workers |-> 0]
        tp == parallel_state.tensor_model_parallel_size
        dp == parallel_state.data_parallel_size
        sampled == <<"GPTPromptLearningDataset", "get_data_parallel_rank",
                     "get_data_parallel_world_size", "DistributedSampler">>
    IN  IF get_dataset_only
        THEN [outcome |-> "returned", calls |-> <<"GPTPromptLearningDataset">>,
              dataset |-> dataset, has_loader |-> FALSE, dataloader |-> no_loader]
        ELSE IF batch_size % dp # 0
        THEN [outcome |-> "AssertionError", calls |-> sampled,
              dataset |-> dataset, has_loader |-> FALSE, dataloader |-> no_loader]
        ELSE [outcome |-> "returned",
              calls |-> sampled
                        \o (IF for_train /\ obj.cfg.sequence_parallel
                            THEN <<"get_tensor_model_parallel_world_size">>
                            ELSE <<>>)
                        \o <<"DataLoader">>,
              dataset |-> dataset,
              has_loader |-> TRUE,
              dataloader |->
                  [batch_size |-> batch_size \div dp,
                   collate_fn |-> IF for_train THEN "self.collate_fn"
                                  ELSE "dataset.inference_collate_fn",
                   tp_workers |-> IF for_train /\ obj.cfg.sequence_parallel
                                  THEN tp ELSE 0]]

\* setup_training_data / setup_validation_data: nothing when the data
\* section has no such dataset; otherwise the arguments are evaluated
\* (self.frozen_model.cfg.encoder_seq_length among them) and the loader built.
SetupData(obj, parallel_state, configured, field) ==
    IF ~configured THEN [obj |-> obj, outcome |-> "returned"]
    ELSE IF obj.frozen_model = Unset
    THEN [obj |-> obj, outcome |-> "AttributeError"]
    ELSE LET built == build_virtual_prompt_dataset(
                          obj, parallel_state, obj.cfg.global_batch_size, TRUE, FALSE)
         IN  IF built.outcome # "returned"
             THEN [obj |-> obj, outcome |-> built.outcome]
             ELSE [obj |-> IF field = "train_dl"
                           THEN [obj EXCEPT !.train_dl = built.dataloader]
                           ELSE [obj EXCEPT !.validation_dl = built.dataloader],
                   outcome |-> "returned"]

\* setup(stage): the object it leaves, how it ends, and the steps it
\* completed, in order.
setup(obj, parallel_state, stage) ==
    IF stage = "predict" \/ obj.virtual_prompt_style = "INFERENCE"
    THEN IF obj.frozen_model = Unset
         THEN [obj |-> obj, outcome |-> "AttributeError", steps |-> <<>>]
         ELSE [obj |-> [obj EXCEPT !.frozen_model = "frozen"],
               outcome |-> "returned", steps |-> <<"freeze">>]
    ELSE LET train == SetupData(obj, parallel_state, obj.cfg.train_ds, "train_dl")
             valid == SetupData(train.obj, parallel_state,
                                obj.cfg.validation_ds, "validation_dl")
             retro == [valid.obj EXCEPT !.retro_train_ds = "RetroDataset"]
         IN  IF train.outcome # "returned"
             THEN [obj |-> train.obj, outcome |-> train.outcome, steps |-> <<>>]
             ELSE IF valid.outcome # "returned"
             THEN [obj |-> valid.obj, outcome |-> valid.outcome,
                   steps |-> <<"setup_training_data">>]
             ELSE IF obj.frozen_model = Unset
             THEN [obj |-> retro, outcome |-> "AttributeError",
                   steps |-> <<"setup_training_data", "setup_validation_data",
                               "build_train_valid_test_datasets">>]
             ELSE [obj |-> retro, outcome |-> "returned",
                   steps |-> <<"setup_training_data", "setup_validation_data",
                               "build_train_valid_test_datasets">>]

Stages == {None, "fit", "test", "predict"}

---------------------------------------------------------------------------
(* Specification of the model object: construction from any               *)
(* configuration, then one call of setup or of                             *)
(* build_virtual_prompt_dataset.                                           *)

Construct ==
    /\ pc = "idle"
    /\ \E cfg \in Configs, restore_ok \in BOOLEAN :
          LET r == Init__(cfg, restore_ok)
          IN  /\ cfg.language_model_path # None => restore_ok
              /\ args' = [op |-> "__init__"]
              /\ self' = r.obj
              /\ ret' = [outcome |-> r.outcome, exc |-> r.exc,
                         message |-> r.message, line |-> r.line]
              /\ pc' = IF r.outcome = "returned" THEN "constructed"
                       ELSE "init_raised"
    /\ UNCHANGED <<k2env, k2mod>>

Setup ==
    /\ pc = "constructed"
    /\ \E stage \in Stages, parallel_state \in ParallelStates :
          LET r == setup(self, parallel_state, stage)
          IN  /\ args' = [op |-> "setup", stage |-> stage,
                          parallel_state |-> parallel_state,
                          before |-> self]
              /\ self' = r.obj
              /\ ret' = [outcome |-> r.outcome, steps |-> r.steps]
              /\ pc' = IF r.outcome = "returned" THEN "setup_returned"
                       ELSE "setup_raised"
    /\ UNCHANGED <<k2env, k2mod>>

\* One call of build_virtual_prompt_dataset on the constructed model, with
\* the arguments the model's callers and other callers may give: the global
\* batch size, for_train and get_dataset_only.
BuildVirtualPromptDataset ==
    /\ pc = "constructed"
    /\ \E parallel_state \in ParallelStates,
          batch_size \in 1..MaxGlobalBatchSize,
          for_train \in BOOLEAN,
          get_dataset_only \in BOOLEAN :
          LET r == build_virtual_prompt_dataset(
                       self, parallel_state, batch_size, for_train, get_dataset_only)
          IN  /\ args' = [op |-> "build_virtual_prompt_dataset",
                          parallel_state |-> parallel_state,
                          batch_size |-> batch_size,
                          for_train |-> for_train,
                          get_dataset_only |-> get_dataset_only]
              /\ ret' = r
              /\ pc' = IF r.outcome = "returned" THEN "dataset_returned"
                       ELSE "dataset_raised"
    /\ UNCHANGED <<self, k2env, k2mod>>

InitModel == Idle
NextModel == Construct \/ Setup \/ BuildVirtualPromptDataset
SpecModel == InitModel /\ [][NextModel]_vars

---------------------------------------------------------------------------
(* collate_fn and pad_batch_and_build_loss_mask. Tensors are sequences of   *)
(* rows; the floats 0.0 and 1.0 of the loss mask are written 0 and 1.       *)

\* max(len(ids) for ids in input_ids), of a non-empty batch.
BatchMax(input_ids) ==
    CHOOSE n \in {Len(input_ids[r]) : r \in DOMAIN input_ids} :
        \A r \in DOMAIN input_ids : Len(input_ids[r]) <= n

\* [value] * count, which is empty for count <= 0.
Repeat(value, count) == IF count <= 0 THEN <<>> ELSE [k \in 1..count |-> value]

\* A plausible slip: padding the batch length itself to a multiple of
\* tp_workers, forgetting the one-token shift of the labels.
resi_padding_unshifted(tp_workers, batch_max) ==
    IF tp_workers > 1
    THEN (tp_workers - (batch_max % tp_workers)) % tp_workers
    ELSE 0

\* resi_padding of collate_fn.
resi_padding(tp_workers, batch_max) ==
    IF tp_workers > 1
    THEN (tp_workers - ((batch_max - 1) % tp_workers)) % tp_workers
    ELSE 0

\* A plausible slip: the answer's first token left out of the loss.
loss_mask_after_answer_start(obj, ids, answer_start_idx) ==
    IF answer_start_idx # <<>>
    THEN [k \in DOMAIN ids |-> IF k - 1 > answer_start_idx[1] THEN 1 ELSE 0]
    ELSE [k \in DOMAIN ids |->
              IF ids[k] \notin Range(obj.pseudo_token_ids) THEN 1 ELSE 0]

\* The loss mask of one row before padding; answer_start_idx is <<>> for
\* None and <<n>> for the index n. Indices are 0-based in the source.
loss_mask_of(obj, ids, answer_start_idx) ==
    IF answer_start_idx # <<>>
    THEN [k \in DOMAIN ids |-> IF k - 1 >= answer_start_idx[1] THEN 1 ELSE 0]
    ELSE [k \in DOMAIN ids |->
              IF ids[k] \notin Range(obj.pseudo_token_ids) THEN 1 ELSE 0]

\* pad_batch_and_build_loss_mask. torch.tensor refuses rows of different
\* lengths, which is what a row longer than batch_max leaves.
pad_batch_and_build_loss_mask(obj, input_ids, batch_max, answer_starts) ==
    LET padding_length(r) == batch_max - Len(input_ids[r])
        padded_input_ids ==
            [r \in DOMAIN input_ids |->
                 input_ids[r] \o Repeat(obj.pad_token_id, padding_length(r))]
        batch_loss_masks ==
            [r \in DOMAIN input_ids |->
                 loss_mask_of(obj, input_ids[r], answer_starts[r])
                     \o Repeat(0, padding_length(r))]
    IN  [outcome |->
             IF \A r, q \in DOMAIN input_ids :
                    Len(padded_input_ids[r]) = Len(padded_input_ids[q])
             THEN "returned" ELSE "ValueError",
         padded_input_ids |-> padded_input_ids,
         batch_loss_masks |-> batch_loss_masks]

\* tensor[:, 1:] and tensor[:, :-1]
DropFirstColumn(tensor) ==
    [r \in DOMAIN tensor |-> SubSeq(tensor[r], 2, Len(tensor[r]))]

DropLastColumn(tensor) ==
    [r \in DOMAIN tensor |-> SubSeq(tensor[r], 1, Len(tensor[r]) - 1)]

\* The padding_value of pad_sequence, and the value tokens_mask tests for.
PaddingValue == 50256

\* collate_fn up to the statement of line 305, which does not compile: the
\* values of its locals there, and how the call ends. No statement after
\* line 305 assigns retrieved_ids or retrieved_emb_mask, so the tuple of
\* line 309 is never built.
collate_fn(obj, batch, tp_workers) ==
    LET taskname_ids == [r \in DOMAIN batch |-> batch[r][1]]
        input_ids == [r \in DOMAIN batch |-> batch[r][2]]
        answer_starts == [r \in DOMAIN batch |-> batch[r][3]]
        max_taskname_length == BatchMax(taskname_ids)
        padded_taskname_ids ==
            IF obj.virtual_prompt_source = "PROMPT_ENCODER"
            THEN [r \in DOMAIN batch |->
                      taskname_ids[r]
                          \o Repeat(obj.pad_token_id,
                                    max_taskname_length - Len(taskname_ids[r]))]
            ELSE taskname_ids
        batch_max == BatchMax(input_ids)
        resi == resi_padding(tp_workers, batch_max)
        padded == pad_batch_and_build_loss_mask(
                      obj, input_ids, batch_max + resi, answer_starts)
        labels == DropFirstColumn(padded.padded_input_ids)
        tokens == DropLastColumn(padded.padded_input_ids)
        loss_mask == DropFirstColumn(padded.batch_loss_masks)
        tokens_mask == [r \in DOMAIN tokens |->
                            [k \in DOMAIN tokens[r] |->
                                 IF tokens[r][k] # PaddingValue THEN 1 ELSE 0]]
    IN  [outcome |-> "raised",
         exc |-> "SyntaxError",
         line |-> 305,
         returned |-> <<>>,
         taskname_ids |-> padded_taskname_ids,
         batch_max_in |-> batch_max,
         resi_padding |-> resi,
         batch_max |-> batch_max + resi - 1,
         padded_input_ids |-> padded.padded_input_ids,
         tokens |-> tokens,
         tokens_mask |-> tokens_mask,
         loss_mask |-> loss_mask,
         labels |-> labels]

\* validation_step reads batch[0] .. batch[5].
ValidationStepReads == 6

\* The object collate_fn is called on: a model tuned by p-tuning with one
\* task of one virtual token.
CollateConfig ==
    [virtual_prompt_style |-> "p-tuning",
     language_model_path |-> "gpt.nemo",
     train_ds |-> TRUE,
     validation_ds |-> TRUE,
     global_batch_size |-> 1,
     sequence_parallel |-> TRUE,
     tasks |-> [task_templates |->
                    <<[taskname |-> "squad", total_virtual_tokens |-> 1]>>,
                new_tasks |-> <<"squad">>]]

CollateObject == Init__(CollateConfig, TRUE).obj

\* The ids a row may hold: the pad token (also an ordinary token of the
\* text) and the pseudo tokens.
Vocabulary == {CollateObject.pad_token_id} \cup Range(CollateObject.pseudo_token_ids)

AnswerStarts == {<<>>, <<1>>}

\* The rows of a batch: (taskname_ids, input_ids, answer_start).
Rows ==
    {<<taskname_ids, input_ids, answer_start>> :
         taskname_ids \in {<<CollateObject.pad_token_id>>},
         input_ids \in UNION {[1..n -> Vocabulary] : n \in 1..MaxLen},
         answer_start \in AnswerStarts}

Batches == UNION {[1..n -> Rows] : n \in 1..MaxBatch}

---------------------------------------------------------------------------
(* Specification of batch collation: one call of collate_fn, of            *)
(* pad_batch_and_build_loss_mask, or of the residual padding alone.        *)

CollateFn ==
    /\ pc = "constructed"
    /\ \E batch \in Batches, tp_workers \in 0..MaxTpWorkers :
          /\ args' = [op |-> "collate_fn", batch |-> batch,
                      tp_workers |-> tp_workers]
          /\ ret' = collate_fn(self, batch, tp_workers)
    /\ pc' = "collated"
    /\ UNCHANGED <<self, k2env, k2mod>>

PadBatchAndBuildLossMask ==
    /\ pc = "constructed"
    /\ \E batch \in Batches, batch_max \in 0..(MaxLen + 1) :
          /\ args' = [op |-> "pad_batch_and_build_loss_mask",
                      input_ids |-> [r \in DOMAIN batch |-> batch[r][2]],
                      batch_max |-> batch_max,
                      answer_starts |-> [r \in DOMAIN batch |-> batch[r][3]]]
          /\ ret' = pad_batch_and_build_loss_mask(
                        self, [r \in DOMAIN batch |-> batch[r][2]], batch_max,
                        [r \in DOMAIN batch |-> batch[r][3]])
    /\ pc' = "padded"
    /\ UNCHANGED <<self, k2env, k2mod>>

ResiPadding ==
    /\ pc = "constructed"
    /\ \E tp_workers \in -1..MaxPaddingTp, batch_max \in 1..MaxBatchMax :
          /\ args' = [op |-> "resi_padding", tp_workers |-> tp_workers,
                      batch_max |-> batch_max]
          /\ ret' = [batch_max_in |-> batch_max,
                     resi_padding |-> resi_padding(tp_workers, batch_max),
                     batch_max |-> batch_max + resi_padding(tp_workers, batch_max) - 1]
    /\ pc' = "padding_computed"
    /\ UNCHANGED <<self, k2env, k2mod>>

InitCollate ==
    /\ pc = "constructed"
    /\ args = [op |-> "__init__"]
    /\ ret = None
    /\ self = CollateObject
    /\ k2env = NoK2Env
    /\ k2mod = NoK2Mod

NextCollate == CollateFn \/ PadBatchAndBuildLossMask \/ ResiPadding
SpecCollate == InitCollate /\ [][NextCollate]_vars

---------------------------------------------------------------------------
(* Specification of get_pseudo_tokens: one call on any argument. *)

GetPseudoTokens ==
    /\ pc = "idle"
    /\ \E n \in 0..MaxNumVirtualTokens :
          /\ args' = [op |-> "get_pseudo_tokens", num_virtual_tokens |-> n]
          /\ ret' = get_pseudo_tokens(n)
    /\ pc' = "returned"
    /\ UNCHANGED <<self, k2env, k2mod>>

InitPseudo == Idle
NextPseudo == GetPseudoTokens
SpecPseudo == InitPseudo /\ [][NextPseudo]_vars

---------------------------------------------------------------------------
(* Specification of load_task_templates: one call on an object whose       *)
(* new_tasks __init__ has set, with any list of task templates.            *)

LoadTaskTemplates ==
    /\ pc = "idle"
    /\ \E task_templates \in SeqsUpTo(TaskConfigs, MaxTasks),
          new_tasks \in SeqsUpTo(TaskNames, MaxNewTasks) :
          LET r == load_task_templates(
                       [NoObject EXCEPT !.new_tasks = new_tasks], task_templates)
          IN  /\ args' = [op |-> "load_task_templates",
                           task_templates |-> task_templates]
              /\ self' = r.obj
              /\ ret' = r.outcome
              /\ pc' = IF r.outcome = "ok" THEN "returned" ELSE "raised"
    /\ UNCHANGED <<k2env, k2mod>>

InitTemplates == Idle
NextTemplates == LoadTaskTemplates
SpecTemplates == InitTemplates /\ [][NextTemplates]_vars

---------------------------------------------------------------------------
(* k2_guard: the versions of packaging.version.Version that k2 publishes,  *)
(* N(.N)*[.devN], as text and as parsed objects.                           *)

\* ".".join(str(x) for x in numbers)
RECURSIVE JoinDots(_)
JoinDots(numbers) ==
    IF Len(numbers) = 0 THEN ""
    ELSE IF Len(numbers) = 1 THEN str(numbers[1])
    ELSE str(numbers[1]) \o "." \o JoinDots(Tail(numbers))

\* The text of a version with the given release numbers and dev segment
\* (dev is <<>> or <<n>>): what setup.py writes to k2.__dev_version__.
VersionText(release, dev) ==
    JoinDots(release) \o (IF dev = <<>> THEN "" ELSE ".dev" \o str(dev[1]))

\* str.split("."), on a text with no empty segment.
RECURSIVE SplitDots(_)
SplitDots(text) ==
    IF \A k \in 1..Len(text) : SubSeq(text, k, k) # "." THEN <<text>>
    ELSE LET dot == CHOOSE k \in 1..Len(text) :
                        /\ SubSeq(text, k, k) = "."
                        /\ \A j \in 1..(k - 1) : SubSeq(text, j, j) # "."
         IN  <<SubSeq(text, 1, dot - 1)>> \o SplitDots(SubSeq(text, dot + 1, Len(text)))

IsNumeral(text) ==
    /\ Len(text) >= 1
    /\ \A k \in 1..Len(text) :
           SubSeq(text, k, k) \in {"0", "1", "2", "3", "4", "5", "6", "7", "8", "9"}

NumeralDigit(c) ==
    CHOOSE d \in 0..9 : Digit(d) = c

\* int(text) of a numeral.
RECURSIVE int(_)
int(text) ==
    IF Len(text) = 0 THEN 0
    ELSE 10 * int(SubSeq(text, 1, Len(text) - 1))
             + NumeralDigit(SubSeq(text, Len(text), Len(text)))

\* Version(text): the release numbers and the dev number of the text.
Version(text) ==
    LET segments == SplitDots(text)
        numeric == {k \in DOMAIN segments : IsNumeral(segments[k])}
        devs == {k \in DOMAIN segments :
                     /\ Len(segments[k]) > 3
                     /\ SubSeq(segments[k], 1, 3) = "dev"
                     /\ IsNumeral(SubSeq(segments[k], 4, Len(segments[k])))}
    IN  [release |-> [k \in 1..Cardinality(numeric) |-> int(segments[k])],
         dev |-> IF devs = {} THEN <<>>
                 ELSE LET k == CHOOSE k \in devs : TRUE
                      IN  <<int(SubSeq(segments[k], 4, Len(segments[k])))>>]

\* str(version)
VersionStr(version) == VersionText(version.release, version.dev)

\* _cmpkey's release: the release numbers without their trailing zeros.
RECURSIVE StripTrailingZeros(_)
StripTrailingZeros(release) ==
    IF Len(release) > 0 /\ release[Len(release)] = 0
    THEN StripTrailingZeros(SubSeq(release, 1, Len(release) - 1))
    ELSE release

\* Python's tuple comparison a < b.
TupleLess(a, b) ==
    \E k \in 1..(Len(b)) :
        /\ \A j \in 1..(k - 1) : j <= Len(a) /\ a[j] = b[j]
        /\ (k > Len(a) \/ a[k] < b[k])

\* A plausible slip: comparing "major.minor" as decimal fractions, so that
\* 1.9 is above 1.11.
DecimalDigits(n) == Len(str(n))

RECURSIVE Pow10(_)
Pow10(n) == IF n = 0 THEN 1 ELSE 10 * Pow10(n - 1)

VersionLessAsDecimal(a, b) ==
    LET am == IF Len(a.release) >= 2 THEN a.release[2] ELSE 0
        bm == IF Len(b.release) >= 2 THEN b.release[2] ELSE 0
    IN  \/ a.release[1] < b.release[1]
        \/ /\ a.release[1] = b.release[1]
           /\ am * Pow10(DecimalDigits(bm)) < bm * Pow10(DecimalDigits(am))

\* Version.__lt__: _cmpkey(a) < _cmpkey(b), for versions with no epoch,
\* pre-release, post-release or local segment. A dev release sorts before
\* the release it leads to.
VersionLess(a, b) ==
    LET ra == StripTrailingZeros(a.release)
        rb == StripTrailingZeros(b.release)
    IN  \/ TupleLess(ra, rb)
        \/ /\ ra = rb
           /\ \/ a.dev # <<>> /\ b.dev = <<>>
              \/ a.dev # <<>> /\ b.dev # <<>> /\ a.dev[1] < b.dev[1]

K2_MINIMUM_MAJOR_VERSION == 1
K2_MINIMUM_MINOR_VERSION == 11

K2_MINIMUM_VERSION ==
    Version(str(K2_MINIMUM_MAJOR_VERSION) \o "." \o str(K2_MINIMUM_MINOR_VERSION))

\* (the source's backquotes are written ' here)
K2_INSTALLATION_MESSAGE ==
    "Could not import 'k2'.\n"
    \o "Please install k2 in one of the following ways:\n"
    \o "1) Run 'bash scripts/speech_recognition/k2/setup.sh'\n"
    \o "2) (not recommended) Use any approach from https://k2-fsa.github.io/k2/installation/index.html "
    \o "if your your cuda and pytorch versions are supported.\n"
    \o "It is advised to always install k2 using setup.sh only, "
    \o "as different versions of k2 may not interact with the NeMo code as expected."

\* A plausible slip: the two versions of the message exchanged.
VersionMismatchMessageSwapped(minimum, installed) ==
    "\nMinimum required k2 version: " \o VersionText(installed.release, installed.dev)
    \o ";\n" \o "Installed k2 version: "
    \o VersionText(minimum.release, minimum.dev) \o "\n"

\* textwrap.dedent of the f-string of the version mismatch.
VersionMismatchMessage(minimum, installed) ==
    "\nMinimum required k2 version: " \o VersionStr(minimum) \o ";\n"
    \o "Installed k2 version: " \o VersionStr(installed) \o "\n"

\* The environments: k2 absent, or installed in some version.
K2Releases ==
    {<<major, minor>> : major \in 0..MaxMajor, minor \in 0..MaxMinor}
    \cup {<<major, minor, patch>> :
              major \in 0..MaxMajor, minor \in 0..MaxMinor, patch \in 0..MaxPatch}

K2Devs == {<<>>} \cup {<<n>> : n \in 0..MaxDev}

K2Environments ==
    {NoK2Env}
    \cup {[installed |-> TRUE, release |-> release, dev |-> dev,
           dev_version |-> VersionText(release, dev)] :
              release \in K2Releases, dev \in K2Devs}

---------------------------------------------------------------------------
(* Specification of k2_guard: one import of the module, statement by       *)
(* statement, then a client that uses the k2 the module exposes.           *)

\* if not package_available("k2"): raise ModuleNotFoundError(...)
K2CheckAvailable ==
    /\ pc = "check_available"
    /\ IF ~k2env.installed
       THEN /\ ret' = [exc |-> "ModuleNotFoundError",
                       message |-> K2_INSTALLATION_MESSAGE]
            /\ pc' = "raised"
       ELSE /\ ret' = ret
            /\ pc' = "import_k2"
    /\ UNCHANGED <<args, self, k2env, k2mod>>

\* import k2
K2Import ==
    /\ pc = "import_k2"
    /\ k2mod' = [k2mod EXCEPT !.k2 = "module k2",
                              !.events = Append(@, "import k2")]
    /\ pc' = "read_version"
    /\ UNCHANGED <<args, ret, self, k2env>>

\* __k2_version = Version(k2.__dev_version__)
K2ReadVersion ==
    /\ pc = "read_version"
    /\ k2mod' = [k2mod EXCEPT !.k2_version = Version(k2env.dev_version),
                              !.events = Append(@, "k2.__dev_version__")]
    /\ pc' = "compare"
    /\ UNCHANGED <<args, ret, self, k2env>>

\* if __k2_version < __K2_MINIMUM_VERSION: raise ImportError(...)
K2Compare ==
    /\ pc = "compare"
    /\ IF VersionLess(k2mod.k2_version, K2_MINIMUM_VERSION)
       THEN /\ ret' = [exc |-> "ImportError",
                       message |-> VersionMismatchMessage(
                                       K2_MINIMUM_VERSION, k2mod.k2_version)]
            /\ pc' = "raised"
       ELSE /\ ret' = ret
            /\ pc' = "loaded"
    /\ UNCHANGED <<args, self, k2env, k2mod>>

\* from nemo.core.utils.k2_guard import k2, and a first use of it.
K2ClientUse ==
    /\ pc = "loaded"
    /\ k2mod' = [k2mod EXCEPT !.events = Append(@, "client uses k2")]
    /\ pc' = "in_use"
    /\ UNCHANGED <<args, ret, self, k2env>>

InitK2 ==
    /\ pc = "check_available"
    /\ args = [op |-> "import nemo.core.utils.k2_guard"]
    /\ ret = None
    /\ self = NoObject
    /\ k2env \in K2Environments
    /\ k2mod = NoK2Mod

NextK2 ==
    \/ K2CheckAvailable
    \/ K2Import
    \/ K2ReadVersion
    \/ K2Compare
    \/ K2ClientUse

SpecK2 == InitK2 /\ [][NextK2]_vars

---------------------------------------------------------------------------
(* Properties of k2_guard. *)

\* The installed release is older than 1.11 in the order of versions:
\* 1.9 and 1.2 are, 1.11.0 is not, and a development build 1.11.devN is.
InstalledBelowMinimum ==
    LET release == k2env.release
        minor == IF Len(release) >= 2 THEN release[2] ELSE 0
    IN  /\ k2env.installed
        /\ \/ release[1] < 1
           \/ release[1] = 1 /\ minor < 11
           \/ /\ release[1] = 1 /\ minor = 11
              /\ \A k \in 3..Len(release) : release[k] = 0
              /\ k2env.dev # <<>>

Contains(text, part) ==
    \E k \in 1..(Len(text) - Len(part) + 1) :
        SubSeq(text, k, k + Len(part) - 1) = part

GuardLoaded == pc \in {"loaded", "in_use"}

\* C4 as stated: with k2 older than 1.11 the guard raises before any use of
\* k2: no import of k2 and no access to a k2 attribute comes before the
\* raise, and the guard never finishes loading.
C4_NoImportBeforeRaise ==
    InstalledBelowMinimum => k2mod.events = <<>> /\ ~GuardLoaded

\* C4 as amended: with k2 older than 1.11 the guard never finishes loading
\* and no client uses k2 through it; it raises ImportError after having
\* itself imported k2 and read k2.__dev_version__, and nothing else of k2.
C4_RaisesBeforeClientUse ==
    InstalledBelowMinimum =>
        /\ ~GuardLoaded
        /\ "client uses k2" \notin Range(k2mod.events)
        /\ k2mod.events \in {<<>>, <<"import k2">>,
                             <<"import k2", "k2.__dev_version__">>}
        /\ (pc = "raised" =>
                /\ ret.exc = "ImportError"
                /\ k2mod.events = <<"import k2", "k2.__dev_version__">>)

C4_Witness ==
    /\ pc = "raised"
    /\ k2env.installed
    /\ k2env.dev_version = "1.9"
    /\ ret.exc = "ImportError"
    /\ k2mod.events = <<"import k2", "k2.__dev_version__">>

\* C5 as stated: ModuleNotFoundError when k2 is absent, ImportError when it
\* is older than 1.11, both messages carrying K2_INSTALLATION_MESSAGE; with
\* k2 >= 1.11 nothing is raised and k2 is exposed.
C5_BothMessagesCarryInstructions ==
    /\ (pc = "raised" =>
            /\ ret.exc = (IF k2env.installed THEN "ImportError"
                          ELSE "ModuleNotFoundError")
            /\ Contains(ret.message, K2_INSTALLATION_MESSAGE))
    /\ (InstalledBelowMinimum \/ ~k2env.installed => ~GuardLoaded)
    /\ (k2env.installed /\ ~InstalledBelowMinimum =>
            /\ pc # "raised"
            /\ (GuardLoaded => k2mod.k2 = "module k2"))

\* C5 as amended: ModuleNotFoundError with K2_INSTALLATION_MESSAGE when k2
\* is absent; when k2 is older than 1.11, an ImportError whose message
\* names the minimum required and the installed version and carries no
\* installation instructions; with k2 >= 1.11 nothing is raised and k2 is
\* exposed.
C5_ErrorsAndMessages ==
    /\ (pc = "raised" /\ ~k2env.installed =>
            /\ ret.exc = "ModuleNotFoundError"
            /\ Contains(ret.message, K2_INSTALLATION_MESSAGE))
    /\ (pc = "raised" /\ k2env.installed =>
            /\ InstalledBelowMinimum
            /\ ret.exc = "ImportError"
            /\ Contains(ret.message, "Minimum required k2 version: 1.11;")
            /\ Contains(ret.message,
                        "Installed k2 version: " \o k2env.dev_version \o "\n")
            /\ ~Contains(ret.message, K2_INSTALLATION_MESSAGE))
    /\ (InstalledBelowMinimum \/ ~k2env.installed => ~GuardLoaded)
    /\ (k2env.installed /\ ~InstalledBelowMinimum =>
            /\ pc # "raised"
            /\ (GuardLoaded => k2mod.k2 = "module k2"))

C5_Witness ==
    /\ pc = "raised"
    /\ k2env.installed
    /\ k2env.dev_version = "1.2.1"
    /\ ret = [exc |-> "ImportError",
              message |-> "\nMinimum required k2 version: 1.11;\n"
                          \o "Installed k2 version: 1.2.1\n"]

---------------------------------------------------------------------------
(* Properties of __init__ and setup. *)

\* C6: constructing the model with a virtual_prompt_style that is not one
\* of the recognized styles raises a ValueError whose message is the
\* descriptive "virtual prompt style '...' not recognized, please use one
\* of 'prompt-tuning' or 'p-tuning'", and sets no virtual_prompt_source.
C6_DescriptiveValueError ==
    (pc \in {"constructed", "init_raised"}
        /\ ~IsStyleValue(self.cfg.virtual_prompt_style)) =>
        /\ pc = "init_raised"
        /\ ret.exc = "ValueError"
        /\ Contains(ret.message,
                    "virtual prompt style '" \o self.cfg.virtual_prompt_style
                    \o "' not recognized, please use one of")
        /\ self.virtual_prompt_source = Unset

\* C7: setup('predict'), or setup of an INFERENCE model, freezes the frozen
\* model and builds nothing; any other setup builds the training data, the
\* validation data and the retro datasets, in that order, and freezes
\* nothing; and setup completes without error on every constructed model,
\* also on one constructed without a language_model_path (stated here for
\* the parallel states whose data-parallel size divides the batch size).
C7_SetupCompletes ==
    (pc \in {"setup_returned", "setup_raised"}
        /\ self.cfg.global_batch_size % args.parallel_state.data_parallel_size = 0) =>
        /\ ret.outcome = "returned"
        /\ IF args.stage = "predict" \/ self.virtual_prompt_style = "INFERENCE"
           THEN /\ ret.steps = <<"freeze">>
                /\ self.frozen_model = "frozen"
                /\ self.retro_train_ds = Unset
           ELSE /\ ret.steps = <<"setup_training_data", "setup_validation_data",
                                 "build_train_valid_test_datasets">>
                /\ self.frozen_model # "frozen"
                /\ self.retro_train_ds # Unset

\* The calls that query the parallel state or build the sampler and loader.
ParallelStateQueries ==
    {"get_data_parallel_rank", "get_data_parallel_world_size",
     "get_tensor_model_parallel_world_size"}

LoaderCalls == {"DistributedSampler", "DataLoader"}

DatasetBuilt ==
    pc \in {"dataset_returned", "dataset_raised"}
        /\ args.op = "build_virtual_prompt_dataset"

\* C11: with get_dataset_only, build_virtual_prompt_dataset returns the
\* dataset having queried no parallel state and built no sampler or loader;
\* otherwise it fails its assertion exactly when the global batch size is
\* not divisible by the data-parallel world size, and when it returns, the
\* loader's batch size times the data-parallel size is the global batch
\* size, and the loader's collate function is the model's collate_fn with
\* tp_workers = the tensor-parallel world size (for_train, sequence_parallel
\* set), the model's collate_fn with tp_workers = 0 (for_train,
\* sequence_parallel unset), or the dataset's inference_collate_fn (not
\* for_train).
C11_DatasetAndLoader ==
    DatasetBuilt =>
        LET dp == args.parallel_state.data_parallel_size
            tp == args.parallel_state.tensor_model_parallel_size
        IN  /\ ret.dataset.class = "GPTPromptLearningDataset"
            /\ ret.calls[1] = "GPTPromptLearningDataset"
            /\ (args.get_dataset_only =>
                    /\ ret.outcome = "returned"
                    /\ ~ret.has_loader
                    /\ Range(ret.calls) \cap (ParallelStateQueries \cup LoaderCalls) = {})
            /\ (~args.get_dataset_only =>
                    /\ ret.outcome \in {"returned", "AssertionError"}
                    /\ (ret.outcome = "AssertionError" <=> args.batch_size % dp # 0)
                    /\ (ret.outcome = "AssertionError" => ~ret.has_loader)
                    /\ (ret.outcome = "returned" =>
                            /\ ret.has_loader
                            /\ ret.calls[Len(ret.calls)] = "DataLoader"
                            /\ ret.dataloader.batch_size * dp = args.batch_size
                            /\ IF args.for_train /\ self.cfg.sequence_parallel
                               THEN /\ ret.dataloader.collate_fn = "self.collate_fn"
                                    /\ ret.dataloader.tp_workers = tp
                               ELSE IF args.for_train
                               THEN /\ ret.dataloader.collate_fn = "self.collate_fn"
                                    /\ ret.dataloader.tp_workers = 0
                               ELSE ret.dataloader.collate_fn
                                        = "dataset.inference_collate_fn"))

C11_Witness ==
    /\ DatasetBuilt
    /\ pc = "dataset_returned"
    /\ ~args.get_dataset_only
    /\ args.for_train
    /\ self.cfg.sequence_parallel
    /\ args.batch_size = 4
    /\ args.parallel_state.data_parallel_size = 2
    /\ args.parallel_state.tensor_model_parallel_size = 2
    /\ ret.dataloader.batch_size = 2
    /\ ret.dataloader.tp_workers = 2
    /\ ret.dataloader.collate_fn = "self.collate_fn"

---------------------------------------------------------------------------
(* Properties of batch collation. *)

\* C8: for any non-empty batch collate_fn returns, without error, the
\* 6-tuple (tokens, tokens_mask, loss_mask, retrieved_ids,
\* retrieved_emb_mask, labels) that validation_step reads as batch[0] ..
\* batch[5], with labels[r][j] the padded input token j+1 of row r,
\* tokens[r][j] the padded input token j, and loss_mask shifted by one.
C8_CollateReturnsBatch ==
    pc = "collated" =>
        /\ ret.outcome = "returned"
        /\ Len(ret.returned) = ValidationStepReads
        /\ ret.returned[1] = ret.tokens
        /\ ret.returned[2] = ret.tokens_mask
        /\ ret.returned[3] = ret.loss_mask
        /\ ret.returned[6] = ret.labels
        /\ \A r \in DOMAIN args.batch :
               \A j \in 1..ret.batch_max :
                   /\ ret.labels[r][j] = ret.padded_input_ids[r][j + 1]
                   /\ ret.tokens[r][j] = ret.padded_input_ids[r][j]

\* C9: when no sequence is longer than batch_max, every returned id row has
\* length batch_max and is the original sequence followed by pad_token_id
\* only; the loss-mask row has the same length, 0.0 at every padding
\* position, and at a position idx of the sequence 1.0 iff idx >=
\* answer_start when answer_start is not None, and otherwise 1.0 iff the
\* token is not one of pseudo_token_ids.
C9_PaddedRowsAndLossMask ==
    (/\ pc = "padded"
     /\ \A r \in DOMAIN args.input_ids : Len(args.input_ids[r]) <= args.batch_max) =>
        /\ ret.outcome = "returned"
        /\ DOMAIN ret.padded_input_ids = DOMAIN args.input_ids
        /\ DOMAIN ret.batch_loss_masks = DOMAIN args.input_ids
        /\ \A r \in DOMAIN args.input_ids :
               LET ids == args.input_ids[r]
                   answer_start == args.answer_starts[r]
                   row == ret.padded_input_ids[r]
                   mask == ret.batch_loss_masks[r]
               IN  /\ Len(row) = args.batch_max
                   /\ Len(mask) = args.batch_max
                   /\ \A k \in 1..Len(ids) :
                          /\ row[k] = ids[k]
                          /\ mask[k] \in {0, 1}
                          /\ mask[k] = 1 <=>
                                 IF answer_start # <<>>
                                 THEN k - 1 >= answer_start[1]
                                 ELSE \A p \in DOMAIN self.pseudo_token_ids :
                                          ids[k] # self.pseudo_token_ids[p]
                   /\ \A k \in (Len(ids) + 1)..args.batch_max :
                          /\ row[k] = self.pad_token_id
                          /\ mask[k] = 0

C9_Witness ==
    /\ pc = "padded"
    /\ self.pad_token_id = 0
    /\ self.pseudo_token_ids = <<1>>
    /\ args.batch_max = 3
    /\ args.input_ids = << <<0, 0>>, <<1>> >>
    /\ args.answer_starts = << <<1>>, <<>> >>
    /\ ret.padded_input_ids = << <<0, 0, 0>>, <<1, 0, 0>> >>
    /\ ret.batch_loss_masks = << <<0, 1, 0>>, <<0, 0, 0>> >>

\* C10: for tp_workers > 1 and a batch maximum length L >= 1 the residual
\* padding r satisfies 0 <= r < tp_workers, makes the model's sequence
\* length L + r - 1 a multiple of tp_workers, and is the smallest padding
\* that does; for tp_workers <= 1 it is 0. In collate_fn the rows of tokens
\* and labels have that length.
C10_ResidualPadding ==
    (pc \in {"collated", "padding_computed"} /\ ret.batch_max_in >= 1) =>
        LET tp_workers == args.tp_workers
            L == ret.batch_max_in
            r == ret.resi_padding
        IN  /\ ret.batch_max = L + r - 1
            /\ (tp_workers > 1 =>
                    /\ 0 <= r /\ r < tp_workers
                    /\ \E m \in 0..(L + r) : ret.batch_max = m * tp_workers
                    /\ \A q \in 0..(r - 1) :
                           \A m \in 0..(L + q) : L + q - 1 # m * tp_workers)
            /\ (tp_workers <= 1 => r = 0)
            /\ (pc = "collated" =>
                    \A row \in DOMAIN args.batch :
                        /\ Len(ret.tokens[row]) = ret.batch_max
                        /\ Len(ret.labels[row]) = ret.batch_max)

C10_Witness ==
    /\ pc = "collated"
    /\ args.tp_workers = 3
    /\ ret.batch_max_in = 2
    /\ ret.resi_padding = 2
    /\ ret.batch_max = 3
    /\ Len(ret.tokens[1]) = 3

---------------------------------------------------------------------------
(* Properties of get_pseudo_tokens. *)

DigitValue(c) ==
    CASE c = "0" -> 0 [] c = "1" -> 1 [] c = "2" -> 2 [] c = "3" -> 3
      [] c = "4" -> 4 [] c = "5" -> 5 [] c = "6" -> 6 [] c = "7" -> 7
      [] c = "8" -> 8 [] c = "9" -> 9 [] OTHER -> -1

IsDecimal(s) ==
    /\ Len(s) >= 1
    /\ \A k \in 1..Len(s) : DigitValue(SubSeq(s, k, k)) >= 0
    /\ (Len(s) > 1 => SubSeq(s, 1, 1) # "0")

\* The number a string of decimal digits denotes.
RECURSIVE DecimalValue(_)
DecimalValue(s) ==
    IF Len(s) = 0 THEN 0
    ELSE 10 * DecimalValue(SubSeq(s, 1, Len(s) - 1))
             + DigitValue(SubSeq(s, Len(s), Len(s)))

\* token is "<prompt_" followed by the decimal numeral of i and ">".
IsPlaceholder(token, i) ==
    LET n == Len(token)
    IN  /\ n >= Len(BASE) + 1 + Len(END)
        /\ SubSeq(token, 1, Len(BASE)) = "<prompt_"
        /\ SubSeq(token, n, n) = ">"
        /\ IsDecimal(SubSeq(token, Len(BASE) + 1, n - 1))
        /\ DecimalValue(SubSeq(token, Len(BASE) + 1, n - 1)) = i

\* C1: get_pseudo_tokens(n) returns exactly n strings, the i-th (0-based)
\* being "<prompt_" + str(i) + ">", pairwise distinct and numbered 0..n-1 in
\* order; for n = 0 the list is empty; for n = 3 it is the docstring's list.
C1_PseudoTokensNumbered ==
    (pc = "returned" /\ args.op = "get_pseudo_tokens") =>
        LET n == args.num_virtual_tokens
        IN  /\ Len(ret) = n
            /\ \A i \in 0..(n - 1) : IsPlaceholder(ret[i + 1], i)
            /\ \A i, j \in 1..n : i # j => ret[i] # ret[j]
            /\ (n = 0 => ret = <<>>)
            /\ (n = 3 => ret = <<"<prompt_0>", "<prompt_1>", "<prompt_2>">>)

C1_Witness ==
    /\ pc = "returned"
    /\ args.op = "get_pseudo_tokens"
    /\ args.num_virtual_tokens = 101
    /\ ret[11] = "<prompt_10>"
    /\ ret[101] = "<prompt_100>"

---------------------------------------------------------------------------
(* Properties of load_task_templates. *)

Loaded == pc \in {"returned", "raised"} /\ args.op = "load_task_templates"

\* C2: the task at input position i (0-based) gets task_id_num i, and for
\* two tasks a before b in the input the id stored in task_templates for a
\* is strictly smaller than the id stored for b.
C2_IdsIncreaseInInputOrder ==
    Loaded =>
        LET tasks == args.task_templates
            table == self.task_templates
        IN  /\ \A i \in DOMAIN tasks :
                   table[tasks[i].taskname].task_id_num = i - 1
            /\ \A i, j \in DOMAIN tasks :
                   i < j => table[tasks[i].taskname].task_id_num
                                < table[tasks[j].taskname].task_id_num

\* The total_virtual_tokens a task name declares: that of its template in
\* the input list (of the last one, when the list repeats the name).
HasTemplate(tasks, name) == \E i \in DOMAIN tasks : tasks[i].taskname = name

DeclaredTokens(tasks, name) ==
    LET last == CHOOSE i \in DOMAIN tasks :
                    /\ tasks[i].taskname = name
                    /\ \A j \in DOMAIN tasks : tasks[j].taskname = name => j <= i
    IN  tasks[last].total_virtual_tokens

\* C3: the method raises whenever two of the new tasks declare different
\* total_virtual_tokens; the assertion on the counts does not fail when all
\* new tasks declare the same count, whatever the other tasks declare; and
\* nothing is raised when new_tasks is empty.
C3_MismatchedNewTasksRaise ==
    Loaded =>
        LET tasks == args.task_templates
            new == {n \in Range(self.new_tasks) : HasTemplate(tasks, n)}
            mismatch == \E a, b \in new :
                            DeclaredTokens(tasks, a) # DeclaredTokens(tasks, b)
        IN  /\ (mismatch => pc = "raised")
            /\ (~mismatch => ret # "AssertionError")
            /\ (self.new_tasks = <<>> => pc = "returned" /\ ret = "ok")
            /\ (ret = "KeyError" =>
                    \E n \in Range(self.new_tasks) : ~HasTemplate(tasks, n))
            /\ (Range(self.new_tasks) = new =>
                    (ret = "AssertionError" <=> mismatch))

C3_Witness ==
    /\ Loaded
    /\ ret = "AssertionError"
    /\ self.new_tasks = <<"squad", "boolq">>
    /\ args.task_templates =
           <<[taskname |-> "squad", total_virtual_tokens |-> 1],
             [taskname |-> "intent", total_virtual_tokens |-> 1],
             [taskname |-> "boolq", total_virtual_tokens |-> 2]>>

\* C12: after load_task_templates on any list, repeated tasknames included,
\* task_id_num_to_name and task_templates have the same number of entries,
\* task_templates[task_id_num_to_name[k]]["task_id_num"] = k for every id k,
\* every task name is the name of exactly one id, and max_virtual_tokens is
\* the largest total_virtual_tokens of the list (0 for the empty list).
C12_TablesConsistent ==
    Loaded =>
        LET tasks == args.task_templates
            table == self.task_templates
            names == self.task_id_num_to_name
        IN  /\ Cardinality(DOMAIN names) = Cardinality(DOMAIN table)
            /\ \A k \in DOMAIN names :
                   /\ names[k] \in DOMAIN table
                   /\ table[names[k]].task_id_num = k
            /\ \A n \in DOMAIN table :
                   Cardinality({k \in DOMAIN names : names[k] = n}) = 1
            /\ (tasks = <<>> => self.max_virtual_tokens = 0)
            /\ (tasks # <<>> =>
                    /\ \E i \in DOMAIN tasks :
                           tasks[i].total_virtual_tokens = self.max_virtual_tokens
                    /\ \A i \in DOMAIN tasks :
                           tasks[i].total_virtual_tokens <= self.max_virtual_tokens)

====
